---- MODULE Spec2Model ----
(***************************************************************************)
(* The `client:ios` command of expo-cli                                    *)
(* (packages/expo-cli/src/commands/client/index.js): one run of the        *)
(* asynchronous action, one action of the model per step of the pipeline.  *)
(* Every awaited external call either resolves with a value drawn from a   *)
(* small set or rejects, and a rejection ends the run with that error.     *)
(***************************************************************************)
EXTENDS Integers, Sequences, FiniteSets, TLC

(* ------------------------------ bounds --------------------------------- *)

\* longest registered-device list the device listing returns
MaxDevices == 2
\* longest raw text the operator types at the email prompt
MaxEmailLen == 3
\* how many invalid email entries the operator makes before a valid one
MaxRejects == 2

(* --------------------------- values of a run --------------------------- *)

\* JavaScript null / undefined, for the fields that hold strings
Null == "null"
Undefined == "undefined"

\* User.getCurrentUserAsync(): a logged-in user, or null (anonymous)
NullUser == [username |-> Null, email |-> <<>>]
Users == {[username |-> "alice", email |-> <<"a", "@", "a">>]}
IsUser(u) == u # NullUser

\* appleApi.authenticate(options): {team: {id}, appleId, appleIdPassword}
NoAuthData ==
    [teamId |-> Undefined, appleId |-> Undefined, appleIdPassword |-> Undefined]
AuthDatas ==
    [teamId : {"TEAM1", "TEAM2"}, appleId : {"dev@apple"},
     appleIdPassword : {"secret"}]

\* isAllowedToBuild(): {isAllowed, errorMessage}
ErrorMessages == {"quota exceeded", "build in flight"}
EligibilityAnswers ==
    {[isAllowed |-> TRUE, errorMessage |-> Undefined]}
    \cup [isAllowed : {FALSE}, errorMessage : ErrorMessages]

\* the selected credentials: null, or a record of fields carrying an update
\* tag ("dirty" = marked for update, "clean" = no tag)
NoFields == [f \in {} |-> f]
NullCredential == [kind |-> Null, tag |-> "clean", fields |-> NoFields]
DistributionCerts ==
    [kind : {"distributionCert"}, tag : {"clean", "dirty"},
     fields : {[certId |-> "CERT1", certP12 |-> "p12"]}]
PushKeys ==
    [kind : {"pushKey"}, tag : {"clean", "dirty"},
     fields : {[apnsKeyId |-> "KEY1", apnsKeyP8 |-> "p8"]}]

\* the registered devices: {name, deviceNumber}
DeviceRecords == {[name |-> "phone", deviceNumber |-> "UDID1"],
                  [name |-> "tablet", deviceNumber |-> "UDID2"]}

\* errors thrown by the external collaborators, one per call
ExternalError(call) == [code |-> "EXTERNAL", message |-> <<call>>]
NoError == [code |-> "none", message |-> <<>>]

VARIABLES
    pc,               \* the step the action is suspended at
    error,            \* the error the run ended with
    calls,            \* the external calls started so far, in order
    exp,              \* the custom project manifest (set of key paths)
    servicesDisabled, \* the entries {service, reason}, in insertion order
    authData,
    user,
    eligibility,      \* <<what isAllowedToBuild resolved with>>, once it has
    context,
    distributionCert,
    pushKey,
    selected,         \* the credentials as the selectors returned them
    storeCalls,       \* Credentials.updateCredentialsForPlatform calls
    clearTagsCalls,   \* clearTags calls
    email,
    rejects,          \* invalid entries at the email prompt
    devices,
    udids,
    addUdid,
    prompts,          \* the prompts shown
    confirmAnswers,   \* the operator's answers to the confirm prompt
    requests,         \* createClientBuildRequest calls
    result,
    reports,          \* the services-disabled tables rendered
    output            \* what else was rendered, in order

clientVars ==
    <<pc, error, calls, exp, servicesDisabled, authData, user, eligibility,
      context, distributionCert, pushKey, selected, storeCalls,
      clearTagsCalls, email, rejects, devices, udids, addUdid, prompts,
      confirmAnswers, requests, result, reports, output>>

\* the bundler-configuration builder (the default export of the webpack
\* configuration package), one call of it
VARIABLES
    bpc,              \* the statement the builder is at
    env,              \* its first argument
    argv,             \* its second argument, as given by the caller
    environment,      \* <<what validateEnvironment returned>>
    webpackCalls,     \* the arguments webpackConfig was called with
    config,           \* <<what webpackConfig resolved with>>
    diagnosis,        \* the Diagnosis.reportAsync calls and their state
    settled           \* <<how the builder's promise settled>>

builderVars ==
    <<bpc, env, argv, environment, webpackCalls, config, diagnosis, settled>>

vars == <<clientVars, builderVars>>

(* ------------------------- helpers on objects -------------------------- *)

\* an object whose key order matters is the sequence of its entries
\* {service, reason}; Object.keys(obj)
Keys(obj) == [i \in 1..Len(obj) |-> obj[i].service]

\* obj[key]: undefined when the key is absent
Get(obj, key) ==
    IF \E i \in 1..Len(obj) : obj[i].service = key
    THEN obj[CHOOSE i \in 1..Len(obj) : obj[i].service = key].reason
    ELSE Undefined

\* obj[key] = val: an existing key keeps its place, a new one goes last
Set(obj, key, val) ==
    IF \E i \in 1..Len(obj) : obj[i].service = key
    THEN [i \in 1..Len(obj) |->
            IF obj[i].service = key THEN [service |-> key, reason |-> val]
            ELSE obj[i]]
    ELSE Append(obj, [service |-> key, reason |-> val])

\* {...acc, ...fields}: the later object's fields win
Spread(acc, fields) ==
    [k \in DOMAIN acc \cup DOMAIN fields |->
        IF k \in DOMAIN fields THEN fields[k] ELSE acc[k]]

\* truthiness of a string-valued expression
Truthy(s) == s # Undefined /\ s # Null /\ s # ""

\* the steps of the action in the order of its statements (lines 35-219)
Steps ==
    <<"config", "authenticate", "getCurrentUser", "isAllowedToBuild",
      "getExperienceName", "ensureAppExists", "selectDistributionCert",
      "selectPushKey", "updateCredentials", "email", "listDevices",
      "createClientBuildRequest", "done">>

\* the order with the two selections exchanged
AfterPushKeyFirst(step) ==
    CASE step = "ensureAppExists" -> "selectPushKey"
      [] step = "selectPushKey" -> "selectDistributionCert"
      [] step = "selectDistributionCert" -> "updateCredentials"
      [] OTHER -> Steps[1 + CHOOSE i \in 1..Len(Steps) : Steps[i] = step]

\* the step the action goes on with when `step` is over
After(step) == Steps[1 + CHOOSE i \in 1..Len(Steps) : Steps[i] = step]

\* a rejected call tried again instead of ending the run
ThrowAndRetry(e) == pc' = pc /\ error' = e

\* the run ends with error e
Throw(e) == pc' = "failed" /\ error' = e

(* ------------------ step 1: the custom configuration ------------------- *)

\* the manifest `exp` of the operator's project: undefined, or an object
\* described by the key paths it holds
GoogleMapsPath == <<"ios", "config", "googleMapsApiKey">>
UndefinedExp == [defined |-> FALSE, paths |-> {}]
Exps == [defined : {TRUE}, paths : {{}, {GoogleMapsPath}}]

\* the second argument of _.has on line 52 is an arrow function, not a path:
\* lodash casts it to a path by splitting the function's source text at the
\* dots, so the path starts with the text before the first dot
HasArgument == <<"_ => _">> \o GoogleMapsPath

\* _.has(object, path)
has(object, path) == object.defined /\ path \in object.paths

DefaultPushReason ==
    "not yet available until API tokens are supported for the Push Notification system"
NoFileReason ==
    "No custom configuration file could be found. You will need to provide a json file with a valid ios.config.googleMapsApiKey field."
NoKeyReason ==
    "ios.config.googleMapsApiKey does not exist in configuration file found in app.json"

\* the report without the default pushNotifications entry of lines 35-38
InitialServicesDisabledEmpty(e) ==
    IF ~has(e, HasArgument)
    THEN Set(<<>>, "googleMaps", IF e.defined THEN NoKeyReason ELSE NoFileReason)
    ELSE <<>>

\* lines 35-38 and 52-57: the report after the configuration was looked up
InitialServicesDisabled(e) ==
    LET initial == <<[service |-> "pushNotifications",
                      reason |-> DefaultPushReason]>>
    IN  IF ~has(e, HasArgument)
        THEN Set(initial, "googleMaps",
                 IF e.defined THEN NoKeyReason ELSE NoFileReason)
        ELSE initial

\* something written to the terminal
Out(kind, field, value) == [kind |-> kind, field |-> field, value |-> value]

\* lines 47-51
SpinnerResult(e) ==
    Out(IF e.defined THEN "spinner.succeed" ELSE "spinner.warn", "", "")

UnchangedAfterConfig ==
    UNCHANGED <<authData, user, eligibility, context, distributionCert,
                pushKey, selected, storeCalls, clearTagsCalls, email, rejects,
                devices, udids, addUdid, prompts, confirmAnswers, requests,
                result, reports>>

\* lines 35-57, app.json absent: readConfigJsonAsync is not called
ConfigAbsent ==
    /\ pc = "config"
    /\ calls' = calls \o <<"fileExistsAsync">>
    /\ exp' = UndefinedExp
    /\ servicesDisabled' = InitialServicesDisabled(UndefinedExp)
    /\ output' = output \o <<SpinnerResult(UndefinedExp)>>
    /\ pc' = After("config")
    /\ UNCHANGED error
    /\ UnchangedAfterConfig
    /\ UNCHANGED builderVars

\* lines 35-57, app.json present and read
ConfigRead ==
    /\ pc = "config"
    /\ \E e \in Exps :
        /\ exp' = e
        /\ servicesDisabled' = InitialServicesDisabled(e)
        /\ output' = output \o <<SpinnerResult(e)>>
    /\ calls' = calls \o <<"fileExistsAsync", "readConfigJsonAsync">>
    /\ pc' = After("config")
    /\ UNCHANGED error
    /\ UnchangedAfterConfig
    /\ UNCHANGED builderVars

\* line 45, readConfigJsonAsync rejects (the file is not valid JSON)
ConfigReadFails ==
    /\ pc = "config"
    /\ calls' = calls \o <<"fileExistsAsync", "readConfigJsonAsync">>
    /\ Throw(ExternalError("readConfigJsonAsync"))
    /\ UNCHANGED <<exp, servicesDisabled, output>>
    /\ UnchangedAfterConfig
    /\ UNCHANGED builderVars

(* ---------------- steps 2-3: authentication, eligibility --------------- *)

\* line 59
Authenticate ==
    /\ pc = "authenticate"
    /\ calls' = calls \o <<"authenticate">>
    /\ \/ \E a \in AuthDatas :
            /\ authData' = a
            /\ pc' = After("authenticate")
            /\ UNCHANGED error
       \/ /\ Throw(ExternalError("authenticate"))
          /\ UNCHANGED authData
    /\ UNCHANGED <<exp, servicesDisabled, user, eligibility, context,
                   distributionCert, pushKey, selected, storeCalls,
                   clearTagsCalls, email, rejects, devices, udids, addUdid,
                   prompts, confirmAnswers, requests, result, reports, output>>
    /\ UNCHANGED builderVars

\* line 60
GetCurrentUser ==
    /\ pc = "getCurrentUser"
    /\ calls' = calls \o <<"getCurrentUserAsync">>
    /\ \/ \E u \in Users \cup {NullUser} :
            /\ user' = u
            /\ pc' = After("getCurrentUser")
            /\ UNCHANGED error
       \/ /\ Throw(ExternalError("getCurrentUserAsync"))
          /\ UNCHANGED user
    /\ UNCHANGED <<exp, servicesDisabled, authData, eligibility, context,
                   distributionCert, pushKey, selected, storeCalls,
                   clearTagsCalls, email, rejects, devices, udids, addUdid,
                   prompts, confirmAnswers, requests, result, reports, output>>
    /\ UNCHANGED builderVars

\* the denial without the reason the service gave
DisallowedErrorNoReason(errorMessage) ==
    [code |-> "CLIENT_BUILD_REQUEST_NOT_ALLOWED",
     message |-> <<"New Expo Client build request disallowed. Reason: ",
                   Undefined>>]

\* lines 69-72: the error of a denied build request
DisallowedPrefix == "New Expo Client build request disallowed. Reason: "
DisallowedError(errorMessage) ==
    [code |-> "CLIENT_BUILD_REQUEST_NOT_ALLOWED",
     message |-> <<DisallowedPrefix, errorMessage>>]

\* the gate left open: the answer is not looked at
PassesGateAlways(answer) == TRUE

\* line 68: whether the run goes on after the eligibility answer
PassesGate(answer) == answer.isAllowed

\* lines 63-73
CheckEligibility ==
    /\ pc = "isAllowedToBuild"
    /\ calls' = calls \o <<"isAllowedToBuild">>
    /\ \/ \E answer \in EligibilityAnswers :
            /\ eligibility' = <<answer>>
            /\ IF PassesGate(answer)
               THEN pc' = After("isAllowedToBuild") /\ UNCHANGED error
               ELSE Throw(DisallowedError(answer.errorMessage))
       \/ /\ Throw(ExternalError("isAllowedToBuild"))
          /\ UNCHANGED eligibility
    /\ UNCHANGED <<exp, servicesDisabled, authData, user, context,
                   distributionCert, pushKey, selected, storeCalls,
                   clearTagsCalls, email, rejects, devices, udids, addUdid,
                   prompts, confirmAnswers, requests, result, reports, output>>
    /\ UNCHANGED builderVars

(* ------------- step 4: bundle identifier, experience, app -------------- *)

NoContext ==
    [teamId |-> Undefined, appleId |-> Undefined, appleIdPassword |-> Undefined,
     bundleIdentifier |-> <<>>, experienceName |-> <<>>, username |-> Undefined]

\* generateBundleIdentifier(teamId): derived from the team id alone
generateBundleIdentifier(teamId) == <<"host.exp.Exponent", teamId>>

\* getExperienceName({user, appleTeamId}): derived from identity and team
getExperienceName(usr, teamId) == <<usr.username, teamId>>

\* lines 77-82
Context(auth, usr, bundleIdentifier, experienceName) ==
    [teamId |-> auth.teamId, appleId |-> auth.appleId,
     appleIdPassword |-> auth.appleIdPassword,
     bundleIdentifier |-> bundleIdentifier,
     experienceName |-> experienceName,
     username |-> IF IsUser(usr) THEN usr.username ELSE Null]

\* lines 75-82
GetExperienceName ==
    /\ pc = "getExperienceName"
    /\ calls' = calls \o <<"getExperienceName">>
    /\ \/ /\ context' = Context(authData, user,
                                generateBundleIdentifier(authData.teamId),
                                getExperienceName(user, authData.teamId))
          /\ pc' = After("getExperienceName")
          /\ UNCHANGED error
       \/ /\ Throw(ExternalError("getExperienceName"))
          /\ UNCHANGED context
    /\ UNCHANGED <<exp, servicesDisabled, authData, user, eligibility,
                   distributionCert, pushKey, selected, storeCalls,
                   clearTagsCalls, email, rejects, devices, udids, addUdid,
                   prompts, confirmAnswers, requests, result, reports, output>>
    /\ UNCHANGED builderVars

\* line 83
EnsureAppExists ==
    /\ pc = "ensureAppExists"
    /\ calls' = calls \o <<"ensureAppExists">>
    /\ \/ pc' = After("ensureAppExists") /\ UNCHANGED error
       \/ Throw(ExternalError("ensureAppExists"))
    /\ UNCHANGED <<exp, servicesDisabled, authData, user, eligibility, context,
                   distributionCert, pushKey, selected, storeCalls,
                   clearTagsCalls, email, rejects, devices, udids, addUdid,
                   prompts, confirmAnswers, requests, result, reports, output>>
    /\ UNCHANGED builderVars

(* -------------------- step 5: credential selection --------------------- *)

\* line 85
SelectDistributionCert ==
    /\ pc = "selectDistributionCert"
    /\ calls' = calls \o <<"selectDistributionCert">>
    /\ \/ \E c \in DistributionCerts \cup {NullCredential} :
            /\ distributionCert' = c
            /\ selected' = [selected EXCEPT !.distributionCert = c]
            /\ pc' = After("selectDistributionCert")
            /\ UNCHANGED error
       \/ /\ Throw(ExternalError("selectDistributionCert"))
          /\ UNCHANGED <<distributionCert, selected>>
    /\ UNCHANGED <<exp, servicesDisabled, authData, user, eligibility, context,
                   pushKey, storeCalls, clearTagsCalls, email, rejects,
                   devices, udids, addUdid, prompts, confirmAnswers, requests,
                   result, reports, output>>
    /\ UNCHANGED builderVars

(* ------------------ step 6: the services-disabled report --------------- *)

\* line 96 without the `servicesDisabled.pushNotifications ||`
PushNotificationsDisabledOverwrites(sd, key, usr) ==
    IF key = NullCredential \/ ~IsUser(usr)
    THEN Set(sd, "pushNotifications",
             IF key = NullCredential
             THEN "you did not upload your push credentials"
             ELSE "we require you to be logged in to store push credentials")
    ELSE sd

\* lines 90-97
PushNotificationsDisabled(sd, key, usr) ==
    IF key = NullCredential \/ ~IsUser(usr)
    THEN LET disabledReason ==
                IF key = NullCredential
                THEN "you did not upload your push credentials"
                ELSE "we require you to be logged in to store push credentials"
             kept == Get(sd, "pushNotifications")
         IN  Set(sd, "pushNotifications",
                 IF Truthy(kept) THEN kept ELSE disabledReason)
    ELSE sd

\* _.startCase(service)
startCase(service) ==
    CASE service = "pushNotifications" -> "Push Notifications"
      [] service = "googleMaps" -> "Google Maps"
      [] OTHER -> service

\* the size test of line 99 inverted
RenderServicesDisabledWhenEmpty(sd) ==
    IF Len(sd) = 0 THEN <<sd>> ELSE <<>>

\* lines 99-112: the tables rendered for the report sd
RenderServicesDisabled(sd) ==
    IF Len(Keys(sd)) > 0
    THEN <<[i \in 1..Len(sd) |-> <<startCase(Keys(sd)[i]),
                                   Get(sd, Keys(sd)[i])>>]>>
    ELSE <<>>

\* lines 86-112
SelectPushKey ==
    /\ pc = "selectPushKey"
    /\ calls' = calls \o <<"selectPushKey">>
    /\ \/ \E k \in PushKeys \cup {NullCredential} :
            /\ pushKey' = k
            /\ selected' = [selected EXCEPT !.pushKey = k]
            /\ servicesDisabled' =
                    PushNotificationsDisabled(servicesDisabled, k, user)
            /\ reports' = reports \o RenderServicesDisabled(servicesDisabled')
            /\ pc' = After("selectPushKey")
            /\ UNCHANGED error
       \/ /\ Throw(ExternalError("selectPushKey"))
          /\ UNCHANGED <<pushKey, selected, servicesDisabled, reports>>
    /\ UNCHANGED <<exp, authData, user, eligibility, context, distributionCert,
                   storeCalls, clearTagsCalls, email, rejects, devices, udids,
                   addUdid, prompts, confirmAnswers, requests, result, output>>
    /\ UNCHANGED builderVars

(* ------------------- step 7: credential persistence -------------------- *)

\* line 115: [distributionCert, pushKey].filter(i => i)
\* a filter that keeps null
KeepsNull(c) == TRUE

IsNotNull(c) == c # NullCredential
credentialsList(cert, key) == SelectSeq(<<cert, key>>, IsNotNull)

\* a reduce that stops after the first credential
ReduceFirstOnly(listOfCredentials, acc) ==
    IF listOfCredentials = <<>> THEN acc
    ELSE Spread(acc, Head(listOfCredentials).fields)

\* lines 122-127: listOfCredentials.reduce(..., acc)
RECURSIVE Reduce(_, _)
Reduce(listOfCredentials, acc) ==
    IF listOfCredentials = <<>> THEN acc
    ELSE Reduce(Tail(listOfCredentials),
                Spread(acc, Head(listOfCredentials).fields))

\* updateCredentialsFn without its early return on an empty list
updateCredentialsFnNoEarlyReturn(listOfCredentials, ctx, usr) ==
    <<[platform |-> "ios",
       credentials |-> Reduce(listOfCredentials, [teamId |-> ctx.teamId]),
       userCredentialsIds |-> <<>>,
       metadata |-> [username |-> usr.username,
                     experienceName |-> ctx.experienceName,
                     bundleIdentifier |-> ctx.bundleIdentifier]]>>

\* lines 118-133: the store calls updateCredentialsFn makes
updateCredentialsFn(listOfCredentials, ctx, usr) ==
    IF Len(listOfCredentials) = 0 THEN <<>>
    ELSE <<[platform |-> "ios",
            credentials |-> Reduce(listOfCredentials,
                                   [teamId |-> ctx.teamId]),
            userCredentialsIds |-> <<>>,
            metadata |-> [username |-> usr.username,
                          experienceName |-> ctx.experienceName,
                          bundleIdentifier |-> ctx.bundleIdentifier]]>>

\* tagger: the credentials marked for update
IsDirty(c) == c.tag = "dirty"

\* tagger, Updater.updateAllAsync(list): the update function is given the
\* credentials that are marked for update
updateAllAsync(list, ctx, usr) ==
    updateCredentialsFn(SelectSeq(list, IsDirty), ctx, usr)

\* tagger, clearTags(list): the credential as it is after its mark is removed
clearTags(c) == [c EXCEPT !.tag = "clean"]

\* the store branch taken for every actor
StoresCredentialsAlways(usr) == TRUE

\* line 116: credentials are stored for a logged-in user only
StoresCredentials(usr) == IsUser(usr)

\* lines 114-139
PersistCredentials ==
    /\ pc = "updateCredentials"
    /\ LET list == credentialsList(distributionCert, pushKey)
       IN  IF StoresCredentials(user)
           THEN LET made == updateAllAsync(list, context, user)
                IN  /\ storeCalls' = storeCalls \o made
                    /\ calls' = calls \o
                          [i \in 1..Len(made) |-> "updateCredentialsForPlatform"]
                    /\ \/ pc' = After("updateCredentials") /\ UNCHANGED error
                       \/ /\ made # <<>>
                          /\ Throw(ExternalError("updateCredentialsForPlatform"))
                    /\ UNCHANGED <<clearTagsCalls, distributionCert, pushKey>>
           ELSE /\ clearTagsCalls' = Append(clearTagsCalls, list)
                /\ distributionCert' =
                      IF IsNotNull(distributionCert)
                      THEN clearTags(distributionCert) ELSE distributionCert
                /\ pushKey' =
                      IF IsNotNull(pushKey) THEN clearTags(pushKey) ELSE pushKey
                /\ pc' = After("updateCredentials")
                /\ UNCHANGED <<storeCalls, calls, error>>
    /\ UNCHANGED <<exp, servicesDisabled, authData, user, eligibility, context,
                   selected, email, rejects, devices, udids, addUdid, prompts,
                   confirmAnswers, requests, result, reports, output>>
    /\ UNCHANGED builderVars

(* ------------------- step 8: the notification email -------------------- *)

\* what the operator can type at the email prompt
Chars == {" ", "a", "@"}
RawEntries == UNION {[1..n -> Chars] : n \in 0..MaxEmailLen}

\* line 148: value.trim()
RECURSIVE TrimStart(_)
TrimStart(value) ==
    IF value # <<>> /\ Head(value) = " " THEN TrimStart(Tail(value)) ELSE value
RECURSIVE TrimEnd(_)
TrimEnd(value) ==
    IF value # <<>> /\ value[Len(value)] = " "
    THEN TrimEnd(SubSeq(value, 1, Len(value) - 1)) ELSE value
trim(value) == TrimEnd(TrimStart(value))

\* a test that only looks for an @
validateAnyAt(value) == \E i \in 1..Len(value) : value[i] = "@"

\* line 149: /.+@.+/.test(value)
validate(value) ==
    \E i \in 1..Len(value) : value[i] = "@" /\ 1 < i /\ i < Len(value)

\* lines 145-150
EmailPrompt == [name |-> "email", type |-> "input", default |-> Undefined]

\* lines 141-145: the email of the logged-in user, or the prompt is shown
ResolveEmail ==
    /\ pc = "email"
    /\ IF IsUser(user)
       THEN /\ email' = user.email
            /\ pc' = After("email")
            /\ UNCHANGED prompts
       ELSE /\ prompts' = Append(prompts, EmailPrompt)
            /\ pc' = "emailPrompt"
            /\ UNCHANGED email
    /\ UNCHANGED <<error, calls, exp, servicesDisabled, authData, user,
                   eligibility, context, distributionCert, pushKey, selected,
                   storeCalls, clearTagsCalls, rejects, devices, udids,
                   addUdid, confirmAnswers, requests, result, reports, output>>
    /\ UNCHANGED builderVars

\* lines 145-150: the operator's entry is trimmed, then validated; an
\* invalid entry asks again
EmailEntry ==
    /\ pc = "emailPrompt"
    /\ \E raw \in RawEntries :
        IF validate(trim(raw))
        THEN /\ email' = trim(raw)
             /\ pc' = After("email")
             /\ UNCHANGED rejects
        ELSE /\ rejects < MaxRejects
             /\ rejects' = rejects + 1
             /\ UNCHANGED <<email, pc>>
    /\ UNCHANGED <<error, calls, exp, servicesDisabled, authData, user,
                   eligibility, context, distributionCert, pushKey, selected,
                   storeCalls, clearTagsCalls, devices, udids, addUdid, prompts,
                   confirmAnswers, requests, result, reports, output>>
    /\ UNCHANGED builderVars

(* ---------------------- step 9: device enrollment ---------------------- *)

DeviceLists == UNION {[1..n -> DeviceRecords] : n \in 0..MaxDevices}

\* line 159
deviceNumbers(ds) == [i \in 1..Len(ds) |-> ds[i].deviceNumber]

\* lines 177-182
ConfirmPrompt == [name |-> "addUdid", type |-> "confirm", default |-> TRUE]

\* the operator is asked even when no device is registered
MustRegisterNever(ids) == FALSE

\* line 163: no device is registered, so one must be
MustRegister(ids) == Len(ids) = 0

\* lines 153-182
ListDevices ==
    /\ pc = "listDevices"
    /\ calls' = calls \o <<"listDevices">>
    /\ \/ \E ds \in DeviceLists :
            /\ devices' = ds
            /\ udids' = deviceNumbers(ds)
            /\ IF MustRegister(udids')
               THEN /\ output' = Append(output, Out("log.noDevices", "", ""))
                    /\ addUdid' = <<TRUE>>
                    /\ pc' = After("listDevices")
                    /\ UNCHANGED prompts
               ELSE /\ output' = Append(output, Out("devicesTable", "", ""))
                    /\ prompts' = Append(prompts, ConfirmPrompt)
                    /\ pc' = "confirm"
                    /\ UNCHANGED addUdid
            /\ UNCHANGED error
       \/ /\ Throw(ExternalError("listDevices"))
          /\ UNCHANGED <<devices, udids, output, addUdid, prompts>>
    /\ UNCHANGED <<exp, servicesDisabled, authData, user, eligibility, context,
                   distributionCert, pushKey, selected, storeCalls,
                   clearTagsCalls, email, rejects, confirmAnswers, requests,
                   result, reports>>
    /\ UNCHANGED builderVars

\* a confirm prompt: "yes", "no", or Enter alone, which takes the default
ConfirmAnswers == {"yes", "no", "enter"}
Confirmed(p, answer) == IF answer = "enter" THEN p.default ELSE answer = "yes"

\* lines 177-183
Confirm ==
    /\ pc = "confirm"
    /\ \E answer \in ConfirmAnswers :
        /\ confirmAnswers' = Append(confirmAnswers, answer)
        /\ addUdid' = <<Confirmed(prompts[Len(prompts)], answer)>>
    /\ pc' = After("listDevices")
    /\ UNCHANGED <<error, calls, exp, servicesDisabled, authData, user,
                   eligibility, context, distributionCert, pushKey, selected,
                   storeCalls, clearTagsCalls, email, rejects, devices, udids,
                   prompts, requests, result, reports, output>>
    /\ UNCHANGED builderVars

(* ------------------- steps 10-11: submission, result ------------------- *)

NoResult == [registrationUrl |-> Undefined, statusUrl |-> Undefined]

\* createClientBuildRequest: the service answers with the link that goes
\* with the enrollment decision of the request
createClientBuildRequest(request) ==
    IF request.addUdid
    THEN [registrationUrl |-> "https://expo.io/register", statusUrl |-> Undefined]
    ELSE [registrationUrl |-> Undefined, statusUrl |-> "https://expo.io/status"]

\* a request that leaves out credentials that were not stored
BuildRequestStoredOnly ==
    [user |-> user, context |-> context,
     distributionCert |->
        IF IsUser(user) THEN distributionCert ELSE NullCredential,
     pushKey |-> IF IsUser(user) THEN pushKey ELSE NullCredential,
     udids |-> udids, addUdid |-> Head(addUdid),
     email |-> email, customAppConfig |-> exp]

\* lines 186-195: the argument of createClientBuildRequest
BuildRequest ==
    [user |-> user, context |-> context, distributionCert |-> distributionCert,
     pushKey |-> pushKey, udids |-> udids, addUdid |-> Head(addUdid),
     email |-> email, customAppConfig |-> exp]

\* the two branches of the rendering exchanged
RenderedFieldSwapped(flag) == IF flag THEN "statusUrl" ELSE "registrationUrl"

\* lines 198-218: the field of the result that is rendered
RenderedField(flag) == IF flag THEN "registrationUrl" ELSE "statusUrl"

\* lines 197-219
RenderResult(res, flag) ==
    <<Out("printQRCode", RenderedField(flag), res[RenderedField(flag)]),
      Out("log.link", RenderedField(flag), res[RenderedField(flag)])>>

\* lines 186-219
Submit ==
    /\ pc = "createClientBuildRequest"
    /\ calls' = calls \o <<"createClientBuildRequest">>
    /\ requests' = Append(requests, BuildRequest)
    /\ \/ /\ result' = createClientBuildRequest(BuildRequest)
          /\ output' = output \o RenderResult(result', Head(addUdid))
          /\ pc' = After("createClientBuildRequest")
          /\ UNCHANGED error
       \/ /\ Throw(ExternalError("createClientBuildRequest"))
          /\ UNCHANGED <<result, output>>
    /\ UNCHANGED <<exp, servicesDisabled, authData, user, eligibility, context,
                   distributionCert, pushKey, selected, storeCalls,
                   clearTagsCalls, email, rejects, devices, udids, addUdid,
                   prompts, confirmAnswers, reports>>
    /\ UNCHANGED builderVars

(* ----------------- the bundler-configuration builder ------------------- *)

\* InputEnvironment: the env the caller passes; info is <<>> when undefined
InputEnvironments ==
    [mode : {Undefined, "development", "production"},
     info : {<<>>, <<TRUE>>, <<FALSE>>}]

\* Environment: what validateEnvironment can return
Environments ==
    [mode : {"development", "production"}, info : {<<>>, <<TRUE>>, <<FALSE>>}]

\* Arguments: the argv the caller passes, or none
UndefinedArguments == [given |-> FALSE, mode |-> Undefined]
EmptyArguments == [given |-> TRUE, mode |-> Undefined]
ArgumentsGiven ==
    {UndefinedArguments, EmptyArguments,
     [given |-> TRUE, mode |-> "production"]}

\* line 10: argv: Arguments = {}
DefaultArguments(a) == IF a = UndefinedArguments THEN EmptyArguments ELSE a

\* Configuration | DevConfiguration: what webpackConfig can resolve with
Configurations == [mode : {"development", "production"}, devServer : BOOLEAN]

\* a report for everything but info: false
ReportsUnlessFalse(e) == e.info # <<FALSE>>

\* line 16: if (environment.info)
Reports(e) == e.info = <<TRUE>>

\* how the promise of the builder settles
Fulfilled(value) == [status |-> "fulfilled", value |-> value]
Rejected(reason) == [status |-> "rejected", value |-> reason]

\* the builder is not called
BuilderIdle ==
    /\ bpc = "idle"
    /\ env = [mode |-> Undefined, info |-> <<>>]
    /\ argv = UndefinedArguments
    /\ environment = <<>>
    /\ webpackCalls = <<>>
    /\ config = <<>>
    /\ diagnosis = <<>>
    /\ settled = <<>>

\* the builder is called with some env and argv
BuilderCalled ==
    /\ bpc = "validateEnvironment"
    /\ env \in InputEnvironments
    /\ argv \in ArgumentsGiven
    /\ environment = <<>>
    /\ webpackCalls = <<>>
    /\ config = <<>>
    /\ diagnosis = <<>>
    /\ settled = <<>>

\* line 12
ValidateEnvironment ==
    /\ bpc = "validateEnvironment"
    /\ \/ \E e \in Environments :
            /\ environment' = <<e>>
            /\ bpc' = "webpackConfig"
            /\ UNCHANGED settled
       \/ /\ settled' = <<Rejected(ExternalError("validateEnvironment"))>>
          /\ bpc' = "settled"
          /\ UNCHANGED environment
    /\ UNCHANGED <<env, argv, webpackCalls, config, diagnosis>>
    /\ UNCHANGED clientVars

\* line 14
WebpackConfig ==
    /\ bpc = "webpackConfig"
    /\ webpackCalls' =
          Append(webpackCalls, <<environment[1], DefaultArguments(argv)>>)
    /\ \/ \E c \in Configurations :
            /\ config' = <<c>>
            /\ bpc' = "report"
            /\ UNCHANGED settled
       \/ /\ settled' = <<Rejected(ExternalError("webpackConfig"))>>
          /\ bpc' = "settled"
          /\ UNCHANGED config
    /\ UNCHANGED <<env, argv, environment, diagnosis>>
    /\ UNCHANGED clientVars

\* lines 16-20: the report is started, not awaited, and config is returned
ReportAndReturn ==
    /\ bpc = "report"
    /\ diagnosis' =
          IF Reports(environment[1])
          THEN Append(diagnosis, [config |-> config[1],
                                  environment |-> environment[1],
                                  state |-> "pending"])
          ELSE diagnosis
    /\ settled' = <<Fulfilled(config[1])>>
    /\ bpc' = "settled"
    /\ UNCHANGED <<env, argv, environment, webpackCalls, config>>
    /\ UNCHANGED clientVars

\* Diagnosis.reportAsync: the promise nobody waits for resolves or rejects
ReportSettles ==
    /\ \E i \in 1..Len(diagnosis) :
        /\ diagnosis[i].state = "pending"
        /\ \E outcome \in {"resolved", "rejected"} :
              diagnosis' = [diagnosis EXCEPT ![i].state = outcome]
    /\ UNCHANGED <<bpc, env, argv, environment, webpackCalls, config, settled>>
    /\ UNCHANGED clientVars

(* --------------------------- the specification ------------------------- *)

ClientInit ==
    /\ pc = "config"
    /\ error = NoError
    /\ calls = <<>>
    /\ exp = UndefinedExp
    /\ servicesDisabled = <<>>
    /\ authData = NoAuthData
    /\ user = NullUser
    /\ eligibility = <<>>
    /\ context = NoContext
    /\ distributionCert = NullCredential
    /\ pushKey = NullCredential
    /\ selected = [distributionCert |-> NullCredential,
                   pushKey |-> NullCredential]
    /\ storeCalls = <<>>
    /\ clearTagsCalls = <<>>
    /\ email = <<>>
    /\ rejects = 0
    /\ devices = <<>>
    /\ udids = <<>>
    /\ addUdid = <<>>
    /\ prompts = <<>>
    /\ confirmAnswers = <<>>
    /\ requests = <<>>
    /\ result = NoResult
    /\ reports = <<>>
    /\ output = <<>>

\* the command runs; the builder is not called
Init == ClientInit /\ BuilderIdle

Next ==
    \/ ConfigAbsent
    \/ ConfigRead
    \/ ConfigReadFails
    \/ Authenticate
    \/ GetCurrentUser
    \/ CheckEligibility
    \/ GetExperienceName
    \/ EnsureAppExists
    \/ SelectDistributionCert
    \/ SelectPushKey
    \/ PersistCredentials
    \/ ResolveEmail
    \/ EmailEntry
    \/ ListDevices
    \/ Confirm
    \/ Submit

Spec == Init /\ [][Next]_vars

\* one call of the builder; the command does not run
BuilderInit == ClientInit /\ BuilderCalled

BuilderNext ==
    \/ ValidateEnvironment
    \/ WebpackConfig
    \/ ReportAndReturn
    \/ ReportSettles

SpecBuilder == BuilderInit /\ [][BuilderNext]_vars

(* ------------------------------- claims -------------------------------- *)

Range(seq) == {seq[i] : i \in 1..Len(seq)}
Last(seq) == seq[Len(seq)]
Count(seq, x) == Cardinality({i \in 1..Len(seq) : seq[i] = x})

\* the call was started in this run
Reached(call) == call \in Range(calls)

\* the run ended because this external call rejected
FailedAt(call) ==
    pc = "failed" /\ error = ExternalError(call) /\ Last(calls) = call

\* isAllowedToBuild answered isAllowed = false
Denied == eligibility # <<>> /\ ~eligibility[1].isAllowed

\* getCurrentUserAsync has resolved, with a user / with no user
UserResolved == Reached("isAllowedToBuild")
Authenticated == UserResolved /\ IsUser(user)
Anonymous == UserResolved /\ ~IsUser(user)

\* the persistence step (lines 114-139) is over
AfterPersist ==
    \/ pc \in {"email", "emailPrompt", "listDevices", "confirm",
               "createClientBuildRequest", "done"}
    \/ pc = "failed" /\ Last(calls) \in {"listDevices", "createClientBuildRequest"}

\* the non-null credentials the selectors returned tagged dirty
DirtySelected ==
    {c \in {selected.distributionCert, selected.pushKey} :
        c # NullCredential /\ c.tag = "dirty"}

\* C1: when isAllowedToBuild denies the build, the run has failed right
\* after that query: no experience name, app registration, credential
\* selection, store update, clearTags, device listing, prompt or build
\* request ever happens.
C1_DeniedNoSideEffects ==
    Denied =>
        /\ pc = "failed"
        /\ Last(calls) = "isAllowedToBuild"
        /\ Range(calls) \cap {"getExperienceName", "ensureAppExists",
                              "selectDistributionCert", "selectPushKey",
                              "updateCredentialsForPlatform", "listDevices",
                              "createClientBuildRequest"} = {}
        /\ storeCalls = <<>> /\ clearTagsCalls = <<>>
        /\ prompts = <<>> /\ requests = <<>>

C1_Witness == Denied /\ pc = "failed"

\* C2: for an anonymous actor the credential store is never called,
\* whatever the tags of the selected credentials; once the persistence
\* step is over, clearTags has been called once, on the non-null
\* credentials.
C2_AnonymousNeverStores ==
    Anonymous =>
        /\ storeCalls = <<>>
        /\ ~Reached("updateCredentialsForPlatform")
        /\ AfterPersist =>
              clearTagsCalls =
                  <<SelectSeq(<<selected.distributionCert, selected.pushKey>>,
                              LAMBDA c : c # NullCredential)>>

C2_Witness ==
    /\ Anonymous /\ pc = "done"
    /\ selected.pushKey # NullCredential /\ selected.pushKey.tag = "dirty"
    /\ selected.distributionCert = NullCredential
    /\ Len(clearTagsCalls) = 1 /\ Len(clearTagsCalls[1]) = 1

\* C3: for a logged-in actor the credential store is called at most once,
\* and the persistence step calls it exactly when a non-null selected
\* credential is tagged dirty; with both credentials reused (clean) there
\* is no store write.
C3_StoreOnceIffDirty ==
    Authenticated =>
        /\ Len(storeCalls) <= 1
        /\ Count(calls, "updateCredentialsForPlatform") = Len(storeCalls)
        /\ IF AfterPersist \/ FailedAt("updateCredentialsForPlatform")
           THEN (Len(storeCalls) = 1) <=> (DirtySelected # {})
           ELSE storeCalls = <<>>

C3_Witness ==
    /\ Authenticated /\ pc = "done" /\ Len(storeCalls) = 1
    /\ selected.distributionCert # NullCredential
    /\ selected.distributionCert.tag = "clean"

\* the fields of the credentials tagged dirty in this run
DirtyFieldNames == UNION {DOMAIN c.fields : c \in DirtySelected}

\* every store call is keyed by the current context
KeyedByContext ==
    \A i \in 1..Len(storeCalls) :
        storeCalls[i].metadata =
            [username |-> context.username,
             experienceName |-> context.experienceName,
             bundleIdentifier |-> context.bundleIdentifier]

\* C4 as stated: the payload of a store call holds only fields of the
\* credentials tagged dirty in this run, and the call is keyed by the
\* current context.
C4_OnlyDirtyFields ==
    /\ \A i \in 1..Len(storeCalls) :
          DOMAIN storeCalls[i].credentials \subseteq DirtyFieldNames
    /\ KeyedByContext

\* C4 amended: the payload of a store call holds teamId, the team id of
\* the current context, and besides it exactly the fields of the
\* credentials tagged dirty in this run, with their values; the call is
\* keyed by the current context.
C4_TeamIdAndDirtyFields ==
    /\ \A i \in 1..Len(storeCalls) :
          LET payload == storeCalls[i].credentials
          IN  /\ DOMAIN payload = {"teamId"} \cup DirtyFieldNames
              /\ payload["teamId"] = context.teamId
              /\ \A c \in DirtySelected :
                    \A f \in DOMAIN c.fields : payload[f] = c.fields[f]
    /\ KeyedByContext

C4_Witness ==
    /\ Len(storeCalls) = 1
    /\ selected.distributionCert # NullCredential
    /\ selected.distributionCert.tag = "clean"
    /\ selected.pushKey # NullCredential /\ selected.pushKey.tag = "dirty"
    /\ DOMAIN storeCalls[1].credentials = {"teamId", "apnsKeyId", "apnsKeyP8"}

\* the run aborted at a step before the persistence step
FailedBeforePersist ==
    \/ FailedAt("authenticate")
    \/ FailedAt("isAllowedToBuild")
    \/ Denied
    \/ FailedAt("ensureAppExists")
    \/ FailedAt("selectDistributionCert")
    \/ FailedAt("selectPushKey")

\* C5 as stated: when a hard-fail step fails (authentication, eligibility,
\* app registration, certificate selection, push-key selection or build
\* submission), nothing has been written to the credential store.
C5_HardFailNoStoreWrite ==
    (FailedBeforePersist \/ FailedAt("createClientBuildRequest"))
        => storeCalls = <<>>

\* C5 amended: when authentication, eligibility, app registration,
\* certificate selection or push-key selection fails, nothing has been
\* written to the credential store; a run whose build submission fails has
\* made the one store write of the persistence step exactly when the actor
\* is logged in and a selected credential is dirty.
C5_StoreWriteBeforeSubmission ==
    /\ FailedBeforePersist => storeCalls = <<>>
    /\ FailedAt("createClientBuildRequest") =>
          /\ Len(storeCalls) <= 1
          /\ (Len(storeCalls) = 1) <=> (IsUser(user) /\ DirtySelected # {})

C5_Witness ==
    FailedAt("createClientBuildRequest") /\ Len(storeCalls) = 1

\* the device listing has resolved
DevicesListed == Reached("listDevices") /\ ~FailedAt("listDevices")

\* the confirm prompts shown
AddUdidPrompts == {i \in 1..Len(prompts) : prompts[i].name = "addUdid"}

\* C6: with no registered device addUdid is true and no confirm prompt is
\* shown; otherwise the confirm prompt is shown exactly once, with default
\* true, and its answer is the decision. The udids sent are the
\* deviceNumber of each listed device.
C6_EnrollmentDecision ==
    DevicesListed =>
        /\ Len(udids) = Len(devices)
        /\ \A i \in 1..Len(devices) : udids[i] = devices[i].deviceNumber
        /\ \A r \in 1..Len(requests) :
              /\ requests[r].udids = udids
              /\ <<requests[r].addUdid>> = addUdid
        /\ IF devices = <<>>
           THEN /\ addUdid = <<TRUE>>
                /\ AddUdidPrompts = {}
                /\ confirmAnswers = <<>>
           ELSE /\ Cardinality(AddUdidPrompts) = 1
                /\ \A i \in AddUdidPrompts :
                      prompts[i].type = "confirm" /\ prompts[i].default = TRUE
                /\ IF pc = "confirm"
                   THEN addUdid = <<>> /\ confirmAnswers = <<>>
                   ELSE /\ Len(confirmAnswers) = 1
                        /\ addUdid = <<confirmAnswers[1] \in {"yes", "enter"}>>

C6_Witness ==
    /\ DevicesListed /\ pc = "done" /\ devices = <<>>
    /\ addUdid = <<TRUE>> /\ AddUdidPrompts = {}

\* the result links rendered
LinkOutputs ==
    {i \in 1..Len(output) : output[i].kind \in {"printQRCode", "log.link"}}

\* C7: after a successful submission one result link is rendered:
\* result.registrationUrl if and only if the addUdid sent in the request
\* is true, otherwise result.statusUrl, never both; before it, none.
C7_OneResultLink ==
    IF pc = "done"
    THEN /\ {output[i].field : i \in LinkOutputs} =
               {IF requests[1].addUdid THEN "registrationUrl" ELSE "statusUrl"}
         /\ \A i \in LinkOutputs : output[i].value = result[output[i].field]
    ELSE LinkOutputs = {}

C7_Witness ==
    /\ pc = "done" /\ ~requests[1].addUdid
    /\ \E i \in LinkOutputs : output[i].field = "statusUrl"

\* where a call is in the order of calls
Index(call) == CHOOSE i \in 1..Len(calls) : calls[i] = call

\* C8: createClientBuildRequest is called at most once, exactly once in a
\* run that completes, and only after authentication, an allowed
\* eligibility answer, ensureAppExists, both selections, the persistence
\* or clear-tags step, email resolution and the device listing; a run
\* that aborts earlier submits nothing.
C8_SubmitOnceAtTheEnd ==
    /\ Len(requests) <= 1
    /\ Count(calls, "createClientBuildRequest") = Len(requests)
    /\ pc = "done" => Len(requests) = 1
    /\ requests # <<>> =>
          /\ \A c \in {"authenticate", "getCurrentUserAsync",
                       "isAllowedToBuild", "getExperienceName",
                       "ensureAppExists", "selectDistributionCert",
                       "selectPushKey", "listDevices"} :
                /\ Count(calls, c) = 1
                /\ Index(c) < Index("createClientBuildRequest")
          /\ eligibility # <<>> /\ eligibility[1].isAllowed
          /\ IF IsUser(user)
             THEN /\ Count(calls, "updateCredentialsForPlatform")
                        = Len(storeCalls)
                  /\ storeCalls # <<>> =>
                        Index("updateCredentialsForPlatform")
                            < Index("createClientBuildRequest")
             ELSE Len(clearTagsCalls) = 1
          /\ email # <<>> /\ requests[1].email = email
          /\ addUdid # <<>>
    /\ (pc = "failed" /\ Last(calls) # "createClientBuildRequest")
          => requests = <<>>

C8_Witness == pc = "done" /\ Len(requests) = 1

\* selectPushKey has resolved
PushKeySelected == Reached("selectPushKey") /\ ~FailedAt("selectPushKey")

\* C9 as stated: the report is rendered at most once, only when it is
\* non-empty, and only after the build request has been submitted.
C9_ReportAfterSubmission ==
    /\ Len(reports) <= 1
    /\ \A i \in 1..Len(reports) : reports[i] # <<>>
    /\ reports # <<>> => pc = "done"

\* C9 amended: the report is rendered at most once, only when it is
\* non-empty, and right after the push key is selected: it is on the
\* terminal before the credential-store update (or clearTags), the device
\* listing and the submission of the build request.
C9_ReportBeforePersistence ==
    /\ Len(reports) = IF PushKeySelected THEN 1 ELSE 0
    /\ \A i \in 1..Len(reports) : reports[i] # <<>>
    /\ pc = "updateCredentials" =>
          /\ Len(reports) = 1
          /\ storeCalls = <<>> /\ clearTagsCalls = <<>>
          /\ ~Reached("updateCredentialsForPlatform")
          /\ ~Reached("listDevices")
          /\ requests = <<>>

C9_Witness == pc = "updateCredentials" /\ Len(reports) = 1 /\ requests = <<>>

\* C10: a denied build request fails the run with the error
\* CLIENT_BUILD_REQUEST_NOT_ALLOWED, whose message ends with the
\* errorMessage isAllowedToBuild returned; no other path produces this
\* error: a rejected external call surfaces as that call's own error.
C10_BusinessDenial ==
    /\ (error.code = "CLIENT_BUILD_REQUEST_NOT_ALLOWED") <=> Denied
    /\ Denied =>
          /\ pc = "failed"
          /\ error.message =
                <<"New Expo Client build request disallowed. Reason: ",
                  eligibility[1].errorMessage>>
    /\ (pc = "failed" /\ ~Denied) => error = ExternalError(Last(calls))
    /\ pc # "failed" => error = NoError

C10_Witness ==
    /\ Denied /\ eligibility[1].errorMessage = "quota exceeded"
    /\ error.code = "CLIENT_BUILD_REQUEST_NOT_ALLOWED"


\* the email prompts shown
EmailPrompts == {i \in 1..Len(prompts) : prompts[i].name = "email"}

\* the text matches /.+@.+/ and has no blank at either end
TrimmedEmail(text) ==
    /\ \E i \in 2..(Len(text) - 1) : text[i] = "@"
    /\ text[1] # " " /\ text[Len(text)] # " "

\* C11: for a logged-in user the email of the build request is the user's
\* email and no email prompt is shown; for an anonymous actor it is the
\* prompted entry, trimmed and matching /.+@.+/. An invalid entry only asks
\* again: the run neither fails nor moves on, and no request carries it.
C11_NotificationEmail ==
    /\ [](/\ Authenticated =>
                /\ EmailPrompts = {}
                /\ rejects = 0
                /\ \A r \in 1..Len(requests) : requests[r].email = user.email
          /\ Anonymous =>
                /\ Cardinality(EmailPrompts) <= 1
                /\ (email # <<>> \/ rejects > 0) => Cardinality(EmailPrompts) = 1
                /\ email # <<>> => TrimmedEmail(email)
                /\ \A r \in 1..Len(requests) :
                      requests[r].email = email /\ TrimmedEmail(requests[r].email))
    /\ [][rejects' # rejects =>
            /\ rejects' = rejects + 1
            /\ pc = "emailPrompt" /\ pc' = "emailPrompt"
            /\ UNCHANGED <<error, email, requests, calls, prompts>>]_vars

C11_Witness ==
    /\ Anonymous /\ pc = "done" /\ rejects > 0
    /\ Len(requests) = 1 /\ requests[1].email = <<"a", "@", "a">>


\* the external steps in the order the claim gives them
CallOrder ==
    <<"authenticate", "getCurrentUserAsync", "isAllowedToBuild",
      "getExperienceName", "ensureAppExists", "selectDistributionCert",
      "selectPushKey", "updateCredentialsForPlatform", "listDevices",
      "createClientBuildRequest">>
Position(call) == CHOOSE i \in 1..Len(CallOrder) : CallOrder[i] = call

\* the calls of the run after the configuration was looked up
IsStepCall(call) == call \notin {"fileExistsAsync", "readConfigJsonAsync"}
StepCalls == SelectSeq(calls, IsStepCall)

\* C12: the external steps happen in one fixed order, each after the one
\* before it has resolved: authenticate, getCurrentUser, eligibility,
\* getExperienceName, ensureAppExists, selectDistributionCert,
\* selectPushKey, persistence (or clearTags), email, device listing (and the
\* confirm prompt), createClientBuildRequest. Only the store call can be
\* left out of the sequence.
C12_FixedOrder ==
    /\ StepCalls # <<>> => StepCalls[1] = "authenticate"
    /\ \A i \in 1..Len(StepCalls) : StepCalls[i] \in Range(CallOrder)
    /\ \A i \in 1..(Len(StepCalls) - 1) :
          \/ Position(StepCalls[i + 1]) = Position(StepCalls[i]) + 1
          \/ /\ StepCalls[i] = "selectPushKey"
             /\ StepCalls[i + 1] = "listDevices"
    /\ Reached("getCurrentUserAsync") => authData \in AuthDatas
    /\ Reached("getExperienceName") =>
          eligibility # <<>> /\ eligibility[1].isAllowed
    /\ Reached("ensureAppExists") => context # NoContext
    /\ clearTagsCalls # <<>> => PushKeySelected /\ ~IsUser(user)
    /\ storeCalls # <<>> => PushKeySelected
    /\ EmailPrompts # {} => Len(clearTagsCalls) = 1
    /\ Reached("listDevices") =>
          /\ email # <<>>
          /\ IsUser(user) \/ Len(clearTagsCalls) = 1
    /\ AddUdidPrompts # {} => DevicesListed
    /\ \A i \in EmailPrompts : \A j \in AddUdidPrompts : i < j
    /\ requests # <<>> => DevicesListed /\ addUdid # <<>>

C12_Witness ==
    /\ pc = "done"
    /\ StepCalls = CallOrder
    /\ AddUdidPrompts # {}

\* C13: no external call is made twice in a run; when one rejects, the run
\* has ended with that call's error, that call is the last one made, and
\* nothing happens afterwards.
C13_NoRetry ==
    /\ [](/\ \A c \in Range(calls) : Count(calls, c) = 1
          /\ \A c \in Range(CallOrder) \cup {"readConfigJsonAsync"} :
                error = ExternalError(c) =>
                    pc = "failed" /\ Last(calls) = c)
    /\ [][pc = "failed" => UNCHANGED vars]_vars

C13_Witness ==
    /\ FailedAt("listDevices")
    /\ Count(calls, "listDevices") = 1
    /\ ~Reached("createClientBuildRequest")


\* the configuration was looked up without an error
ConfigResolved == pc # "config" /\ ~FailedAt("readConfigJsonAsync")

\* the report has a googleMaps entry
GoogleMapsDisabled ==
    \E i \in 1..Len(servicesDisabled) :
        servicesDisabled[i].service = "googleMaps"

\* C14: a missing app.json does not abort the run: it goes on to
\* authentication with customAppConfig undefined and a googleMaps entry in
\* the report. A googleMaps entry is recorded exactly when the manifest is
\* absent or lacks ios.config.googleMapsApiKey; a manifest that holds the
\* key produces no googleMaps entry.
C14_GoogleMapsEntry ==
    /\ (pc # "config" /\ ~Reached("readConfigJsonAsync")) =>
          /\ Reached("fileExistsAsync")
          /\ exp = UndefinedExp
          /\ GoogleMapsDisabled
          /\ \A r \in 1..Len(requests) :
                requests[r].customAppConfig = UndefinedExp
          /\ pc = "failed" => Reached("authenticate")
    /\ ConfigResolved =>
          (GoogleMapsDisabled <=>
              (~exp.defined \/ GoogleMapsPath \notin exp.paths))


\* the push key is null or the actor is anonymous
PushDegraded ==
    PushKeySelected /\ (selected.pushKey = NullCredential \/ ~IsUser(user))

\* the services named in a rendered table
ServicesIn(table) == {table[i][1] : i \in 1..Len(table)}

\* C15: a null push key or an anonymous actor does not abort the run: the
\* run can always go on until createClientBuildRequest, it ends early only
\* when a later external call rejects, the request carries the push key as
\* selected (null included), and the rendered report has a
\* pushNotifications entry.
C15_PushDegradationContinues ==
    PushDegraded =>
        /\ Len(reports) = 1
        /\ "Push Notifications" \in ServicesIn(reports[1])
        /\ pc \notin {"done", "failed"} => ENABLED Next
        /\ pc = "failed" =>
              \E c \in {"updateCredentialsForPlatform", "listDevices",
                        "createClientBuildRequest"} : FailedAt(c)
        /\ pc = "done" => Len(requests) = 1
        /\ \A r \in 1..Len(requests) :
              /\ requests[r].pushKey.kind = selected.pushKey.kind
              /\ requests[r].pushKey.fields = selected.pushKey.fields

C15_Witness ==
    /\ PushDegraded /\ pc = "done"
    /\ ~IsUser(user) /\ selected.pushKey = NullCredential
    /\ requests[1].pushKey = NullCredential


\* C16: the report only grows: a service has at most one entry, and an
\* entry once recorded stays, with the reason it was recorded with.
C16_ReportMonotone ==
    /\ [](\A i, j \in 1..Len(servicesDisabled) :
              servicesDisabled[i].service = servicesDisabled[j].service
                  => i = j)
    /\ [][\A i \in 1..Len(servicesDisabled) :
              /\ i <= Len(servicesDisabled')
              /\ servicesDisabled'[i] = servicesDisabled[i]]_vars

C16_Witness ==
    /\ PushDegraded
    /\ Len(servicesDisabled) = 2
    /\ servicesDisabled[1].service = "pushNotifications"
    /\ servicesDisabled[2].service = "googleMaps"


\* the builder's promise is fulfilled
BuilderReturned == settled # <<>> /\ settled[1].status = "fulfilled"

\* C17: the builder returns the configuration webpackConfig produced for
\* (validateEnvironment(env), argv), argv being {} when not given;
\* Diagnosis.reportAsync is started if and only if environment.info is
\* truthy, with that configuration, not before it exists; the return does
\* not wait for the report, and what was returned stays as it is when the
\* report resolves or rejects.
C17_BuilderResult ==
    /\ [](/\ Len(webpackCalls) <= 1
          /\ Len(diagnosis) <= 1
          /\ \A i \in 1..Len(webpackCalls) :
                /\ environment # <<>>
                /\ webpackCalls[i][1] = environment[1]
                /\ webpackCalls[i][2] =
                      (IF argv.given THEN argv
                       ELSE [given |-> TRUE, mode |-> Undefined])
          /\ BuilderReturned =>
                /\ config # <<>> /\ Len(webpackCalls) = 1
                /\ settled[1].value = config[1]
                /\ (diagnosis # <<>>) <=> (environment[1].info = <<TRUE>>)
          /\ ~BuilderReturned => diagnosis = <<>>
          /\ \A i \in 1..Len(diagnosis) :
                /\ diagnosis[i].config = config[1]
                /\ diagnosis[i].environment = environment[1])
    /\ [][/\ settled # <<>> => settled' = settled
          /\ settled' # settled =>
                \A i \in 1..Len(diagnosis') : diagnosis'[i].state = "pending"
         ]_vars

C17_Witness ==
    /\ BuilderReturned
    /\ Len(diagnosis) = 1 /\ diagnosis[1].state = "rejected"
    /\ settled[1].value = config[1]
    /\ ~argv.given


\* the row the rendered table has for the default pushNotifications entry
DefaultPushRow == <<"Push Notifications", DefaultPushReason>>

\* C18: once the push key is selected the report has been rendered, and the
\* table has a pushNotifications row whose reason is the initial default,
\* whether or not a push key was obtained and whether or not the actor is
\* logged in; the report is never empty. From the configuration step on the
\* report holds the default entry.
C18_DefaultPushReason ==
    /\ ConfigResolved =>
          /\ Len(servicesDisabled) > 0
          /\ Get(servicesDisabled, "pushNotifications") = DefaultPushReason
    /\ PushKeySelected =>
          /\ Len(reports) = 1
          /\ reports[1] # <<>>
          /\ \E i \in 1..Len(reports[1]) : reports[1][i] = DefaultPushRow
          /\ \A i \in 1..Len(reports[1]) :
                reports[1][i][1] = "Push Notifications"
                    => reports[1][i] = DefaultPushRow

C18_Witness ==
    /\ PushKeySelected /\ pc = "done"
    /\ ~IsUser(user) /\ selected.pushKey # NullCredential
    /\ reports[1][1] = DefaultPushRow


\* selectDistributionCert returned null
CertNull ==
    /\ Reached("selectDistributionCert")
    /\ ~FailedAt("selectDistributionCert")
    /\ selected.distributionCert = NullCredential

\* C19: a null distribution certificate does not abort the run: the run can
\* always go on, it ends early only when a later external call rejects, the
\* null is not in the list given to the store update or to clearTags (the
\* list is the push key alone, or empty), and createClientBuildRequest is
\* called with distributionCert = null.
C19_NullCertContinues ==
    CertNull =>
        /\ pc \notin {"done", "failed"} => ENABLED Next
        /\ pc = "failed" =>
              \E c \in {"selectPushKey", "updateCredentialsForPlatform",
                        "listDevices", "createClientBuildRequest"} :
                  FailedAt(c)
        /\ \A i \in 1..Len(clearTagsCalls) :
              NullCredential \notin Range(clearTagsCalls[i])
        /\ \A i \in 1..Len(storeCalls) :
              DOMAIN storeCalls[i].credentials \subseteq
                  {"teamId"} \cup DOMAIN selected.pushKey.fields
        /\ AfterPersist =>
              IF IsUser(user)
              THEN (Len(storeCalls) = 1) <=>
                      (selected.pushKey # NullCredential
                          /\ selected.pushKey.tag = "dirty")
              ELSE clearTagsCalls =
                      <<IF selected.pushKey = NullCredential
                        THEN <<>> ELSE <<selected.pushKey>>>>
        /\ pc = "done" => Len(requests) = 1
        /\ \A r \in 1..Len(requests) :
              requests[r].distributionCert = NullCredential

C19_Witness ==
    /\ CertNull /\ pc = "done"
    /\ ~IsUser(user)
    /\ clearTagsCalls = <<<<selected.pushKey>>>>
    /\ selected.pushKey # NullCredential
    /\ requests[1].distributionCert = NullCredential


\* the credential a request carries is the one the selector returned
SameCredential(sent, chosen) ==
    sent.kind = chosen.kind /\ sent.fields = chosen.fields

\* C20: every build request carries the distribution certificate and the
\* push key the selectors returned in this run, null included; for an
\* anonymous actor too, where nothing was stored and the tags were
\* cleared: a generated push key that was not persisted is still sent.
C20_RequestCarriesSelected ==
    \A r \in 1..Len(requests) :
        /\ SameCredential(requests[r].distributionCert,
                          selected.distributionCert)
        /\ SameCredential(requests[r].pushKey, selected.pushKey)
        /\ requests[r].distributionCert = distributionCert
        /\ requests[r].pushKey = pushKey
        /\ ~IsUser(user) =>
              /\ storeCalls = <<>>
              /\ requests[r].distributionCert.tag = "clean"
              /\ requests[r].pushKey.tag = "clean"

C20_Witness ==
    /\ pc = "done" /\ ~IsUser(user) /\ storeCalls = <<>>
    /\ selected.pushKey # NullCredential /\ selected.pushKey.tag = "dirty"
    /\ selected.distributionCert # NullCredential
    /\ requests[1].pushKey.fields = selected.pushKey.fields
    /\ requests[1].pushKey.tag = "clean"

====
